---- MODULE Spec2Model ----
(***************************************************************************)
(* The item scheduler of blockwart/node.py (apply_items and its helpers,   *)
(* Node.apply, ApplyResult) as a state machine.                            *)
(*                                                                         *)
(* An item id "type:name" is the pair <<type, name>>; the id of a          *)
(* DummyItem, "type:", is <<type, "">>.  The WorkerPool lives in           *)
(* blockwart/concurrency.py, which is not part of the sources at hand: its *)
(* operations follow section 4.E of the specification.                     *)
(***************************************************************************)
EXTENDS Naturals, Integers, Sequences, FiniteSets, TLC

\* ------------------------------------------------------------------ bounds

MaxItems == 3
MaxDeps == 2
MaxWorkers == 2
MaxResults == 2

\* ------------------------------------------------------------ the universe

Min(a, b) == IF a < b THEN a ELSE b

IdUniverse ==
    << <<"file", "a">>, <<"file", "b">>, <<"svc", "s">>, <<"svc", "t">> >>

ItemIds == { IdUniverse[i] : i \in 1..Min(MaxItems, Len(IdUniverse)) }

GhostId == <<"ghost", "nope">>

\* item.id.split(":")[0] and dep.split(":")[0]
TypeOf(id) == id[1]

\* DummyItem.id: "{}:".format(self.item_type)
DummyId(item_type) == <<item_type, "">>

\* what a dependency list may name: a concrete item, a type group, or an id
\* that no item of the run carries
DepIds == ItemIds \cup { DummyId(TypeOf(i)) : i \in ItemIds } \cup { GhostId }

AllIds == DepIds \cup { DummyId(TypeOf(d)) : d \in DepIds }

SeqsUpTo(S, n) == UNION { [1..k -> S] : k \in 0..n }

Range(s) == { s[i] : i \in DOMAIN s }

\* File.DEPENDS_STATIC is []; the other item classes are collaborators, whose
\* class-level list is either empty or names a type group
StaticChoices(item_type) ==
    IF item_type = "file" THEN { <<>> }
    ELSE { <<>>, << DummyId("file") >> }

\* the item lists of a run: distinct ids, at most MaxDeps user dependencies
\* in total
RECURSIVE ListsFrom(_, _)
ListsFrom(i, budget) ==
    IF i > Min(MaxItems, Len(IdUniverse)) THEN { <<>> }
    ELSE ListsFrom(i + 1, budget) \cup
         UNION { UNION { { << [id |-> IdUniverse[i],
                              DEPENDS_STATIC |-> st,
                              depends |-> d] >> \o rest
                           : rest \in ListsFrom(i + 1, budget - Len(d)) }
                         : d \in SeqsUpTo(DepIds, budget) }
                 : st \in StaticChoices(TypeOf(IdUniverse[i])) }

\* ------------------------------------------------------------------- state

VARIABLES
    caller,             \* "apply_items" (called with a list) or "Node.apply"
    items,              \* the items of the run, in order
    workers,            \* the workers argument of the call
    interactive,        \* the interactive argument of the call
    worker_count,       \* what apply_items is handed as workers (0: not yet)
    pool_size,          \* size of the WorkerPool (0: none was built)
    pc,                 \* position of the generator apply_items
    items_with_deps,    \* apply_items' local list
    items_without_deps, \* apply_items' local list
    busy,               \* ids of the workers running a task
    reapable,           \* ids of the workers whose task is done, not reaped
    startCount,         \* id -> number of start_task calls with that id
    reaped,             \* ids reaped so far
    yieldCount,         \* id -> number of results yielded for it
    raised,             \* ids of the items whose apply raised in the worker
    error,              \* the exception the run ended with, or "none"
    listed,             \* the items an ItemDependencyError names
    item_results,       \* ApplyResult: the pairs still to classify
    counters,           \* ApplyResult: correct, fixed, aborted, unfixable, failed
    last,               \* ApplyResult: the pair classified last, or <<>>
    agg_error,          \* ApplyResult: "none" or "RuntimeError"
    layers,             \* Metastack._layers: the (identifier, layer) pairs, in order
    ms_op,              \* Metastack: the last call and what it returned
    mode_value,         \* validator_mode: the value it is handed
    mode_result         \* validator_mode: "none", "accepted" or "BundleError"

schedVars ==
    << caller, items, workers, interactive, worker_count, pool_size, pc,
       items_with_deps, items_without_deps, busy, reapable, startCount,
       reaped, yieldCount, raised, error, listed >>

aggVars == << item_results, counters, last, agg_error >>

msVars == << layers, ms_op >>

modeVars == << mode_value, mode_result >>

vars == << schedVars, aggVars, msVars, modeVars >>

\* ----------------------------------------------------- the graph's helpers

None == "None"

\* DummyItem.__init__: no dependencies yet; DummyItem.apply returns None
DummyItem(item_type) == [id |-> DummyId(item_type), dummy |-> TRUE, deps |-> <<>>]

\* item._deps = item.DEPENDS_STATIC + item.depends
MergedDeps(item) == item.DEPENDS_STATIC \o item.depends

\* if item_type not in dummy_items: dummy_items[item_type] = DummyItem(item_type)
AddDummy(dummy_items, item_type) ==
    IF \E k \in DOMAIN dummy_items : TypeOf(dummy_items[k].id) = item_type
    THEN dummy_items
    ELSE Append(dummy_items, DummyItem(item_type))

\* dummy_items[item_type]._deps.append(item.id)
AppendToDummy(dummy_items, item_type, id) ==
    [ k \in DOMAIN dummy_items |->
        IF TypeOf(dummy_items[k].id) = item_type
        THEN [ dummy_items[k] EXCEPT !.deps = Append(@, id) ]
        ELSE dummy_items[k] ]

\* a builder that leaves out the types only dependencies name
AddDepTypes_skipped(dummy_items, deps) == dummy_items

\* for dep in item._deps: a DummyItem for the type of every dependency
RECURSIVE AddDepTypes(_, _)
AddDepTypes(dummy_items, deps) ==
    IF deps = <<>> THEN dummy_items
    ELSE AddDepTypes(AddDummy(dummy_items, TypeOf(Head(deps))), Tail(deps))

\* the loop of inject_dummy_items over the items, from the k-th on; the
\* dictionary dummy_items is kept as the sequence of its values
RECURSIVE DummyItemsFrom(_, _, _)
DummyItemsFrom(its, k, dummy_items) ==
    IF k > Len(its) THEN dummy_items
    ELSE LET item == its[k]
             own == AppendToDummy(AddDummy(dummy_items, TypeOf(item.id)),
                                  TypeOf(item.id), item.id)
         IN  DummyItemsFrom(its, k + 1, AddDepTypes(own, MergedDeps(item)))

DummyItems(its) == DummyItemsFrom(its, 1, <<>>)

\* the orders dummy_items.values() may come in
Orders(n) == { f \in [1..n -> 1..n] : \A i, j \in 1..n : i # j => f[i] # f[j] }

\* list(dummy_items.values()) + items, with values() in the order `order`
inject_dummy_items(its, order) ==
    [ k \in 1..Len(DummyItems(its)) |-> DummyItems(its)[order[k]] ]
    \o [ k \in DOMAIN its |->
           [id |-> its[k].id, dummy |-> FALSE, deps |-> MergedDeps(its[k])] ]

\* list.remove(x): drops the first occurrence; ValueError (passed over by
\* the caller) when there is none
RECURSIVE RemoveFirst(_, _)
RemoveFirst(s, x) ==
    IF s = <<>> THEN <<>>
    ELSE IF Head(s) = x THEN Tail(s)
    ELSE << Head(s) >> \o RemoveFirst(Tail(s), x)

remove_dep_from_items(its, dep) ==
    [ k \in DOMAIN its |-> [ its[k] EXCEPT !.deps = RemoveFirst(@, dep) ] ]

HasNoDeps(item) == item.deps = <<>>

HasDeps(item) == item.deps # <<>>

\* a split that takes the items with dependencies for the ready ones
split_items_inverted(its) ==
    << SelectSeq(its, HasNoDeps), SelectSeq(its, HasDeps) >>

\* (items, removed_items): the items that keep dependencies, and those with
\* none, both in the order of the list
split_items_without_deps(its) ==
    << SelectSeq(its, HasDeps), SelectSeq(its, HasNoDeps) >>

\* Node.items is a generator; a direct caller of apply_items passes a list
Node_items == IF caller = "Node.apply" THEN "generator" ELSE "list"

\* ------------------------------------------------------------ the pool

busy_count == Cardinality(busy)

reapable_count == Cardinality(reapable)

\* get_idle_worker(block=False) is not None
HasIdleWorker == busy_count + reapable_count < pool_size

\* ------------------------------------------------------- the callers

Zeros == [ i \in AllIds |-> 0 ]

NoCounters ==
    [correct |-> 0, fixed |-> 0, aborted |-> 0, unfixable |-> 0, failed |-> 0]

\* no Metastack call and no validator call is under way
MetaIdle == layers = <<>> /\ ms_op = [op |-> "none"]

ModeIdle == mode_value = <<>> /\ mode_result = "none"

Init ==
    /\ caller \in { "apply_items", "Node.apply" }
    /\ items \in ListsFrom(1, MaxDeps)
    /\ workers \in 1..MaxWorkers
    /\ interactive \in BOOLEAN
    /\ worker_count = 0
    /\ pool_size = 0
    /\ pc = "call"
    /\ items_with_deps = <<>>
    /\ items_without_deps = <<>>
    /\ busy = {}
    /\ reapable = {}
    /\ startCount = Zeros
    /\ reaped = {}
    /\ yieldCount = Zeros
    /\ raised = {}
    /\ error = "none"
    /\ listed = {}
    /\ item_results = <<>>
    /\ counters = NoCounters
    /\ last = <<>>
    /\ agg_error = "none"
    /\ MetaIdle
    /\ ModeIdle

\* a node apply that keeps the requested worker count
NodeWorkerCount_kept(inter, wrk) == wrk

\* worker_count = 1 if interactive else workers
NodeWorkerCount(inter, wrk) == IF inter THEN 1 ELSE wrk

\* Node.apply: the call apply_items(self.items, workers=worker_count, ...);
\* the generator does not run before ApplyResult iterates it
Node_apply ==
    /\ pc = "call"
    /\ caller = "Node.apply"
    /\ worker_count' = NodeWorkerCount(interactive, workers)
    /\ pc' = "start"
    /\ UNCHANGED << caller, items, workers, interactive, pool_size,
                    items_with_deps, items_without_deps, busy, reapable,
                    startCount, reaped, yieldCount, raised, error, listed >>
    /\ UNCHANGED << aggVars, msVars, modeVars >>

\* a direct call apply_items(items, workers, interactive) with a list
Direct_call ==
    /\ pc = "call"
    /\ caller = "apply_items"
    /\ worker_count' = workers
    /\ pc' = "start"
    /\ UNCHANGED << caller, items, workers, interactive, pool_size,
                    items_with_deps, items_without_deps, busy, reapable,
                    startCount, reaped, yieldCount, raised, error, listed >>
    /\ UNCHANGED << aggVars, msVars, modeVars >>

\* ------------------------------------------------------- apply_items

\* lines 84-87, run at the first next() of the generator: the graph, the
\* pool, the first split.  list + generator raises TypeError in line 80.
Start ==
    /\ pc = "start"
    /\ IF Node_items = "generator"
       THEN /\ error' = "TypeError"
            /\ pc' = "done"
            /\ UNCHANGED << pool_size, items_with_deps, items_without_deps >>
       ELSE \E order \in Orders(Len(DummyItems(items))) :
              LET split == split_items_without_deps(
                               inject_dummy_items(items, order))
              IN  /\ pool_size' = worker_count
                  /\ items_with_deps' = split[1]
                  /\ items_without_deps' = split[2]
                  /\ pc' = "while"
                  /\ error' = error
    /\ UNCHANGED << caller, items, workers, interactive, worker_count, busy,
                    reapable, startCount, reaped, yieldCount, raised, listed >>
    /\ UNCHANGED << aggVars, msVars, modeVars >>

\* line 92-96: the condition of the outer loop
LoopTest ==
    /\ pc = "while"
    /\ pc' = IF items_without_deps # <<>> \/ busy_count > 0 \/ reapable_count > 0
             THEN "dispatch" ELSE "exit"
    /\ UNCHANGED << caller, items, workers, interactive, worker_count,
                    pool_size, items_with_deps, items_without_deps, busy,
                    reapable, startCount, reaped, yieldCount, raised, error,
                    listed >>
    /\ UNCHANGED << aggVars, msVars, modeVars >>

\* items_without_deps.pop(): the last item, and the list it leaves
Popped(its) == its[Len(its)]

\* a dispatch that leaves the item in the list
AfterPop_kept(its) == its

AfterPop(its) == SubSeq(its, 1, Len(its) - 1)

\* lines 97-107: one pass of the dispatch loop
Dispatch ==
    /\ pc = "dispatch"
    /\ IF items_without_deps # <<>> /\ HasIdleWorker
       THEN LET item == Popped(items_without_deps)
            IN  /\ items_without_deps' = AfterPop(items_without_deps)
                /\ busy' = busy \cup { [id |-> item.id, dummy |-> item.dummy] }
                /\ startCount' = [ startCount EXCEPT ![item.id] = @ + 1 ]
                /\ pc' = "dispatch"
       ELSE /\ pc' = "reap"
            /\ UNCHANGED << items_without_deps, busy, startCount >>
    /\ UNCHANGED << caller, items, workers, interactive, worker_count,
                    pool_size, items_with_deps, reapable, reaped, yieldCount,
                    raised, error, listed >>
    /\ UNCHANGED << aggVars, msVars, modeVars >>

\* a worker's task ends: DummyItem.apply returns None, an item's apply
\* returns its pair of statuses or raises
TaskDone ==
    /\ pc # "done"
    /\ \E task \in busy :
         \E result \in IF task.dummy THEN { None } ELSE { "pair", "failure" } :
           /\ busy' = busy \ { task }
           /\ reapable' = reapable \cup { [id |-> task.id, result |-> result] }
           /\ raised' = IF result = "failure" THEN raised \cup { task.id }
                        ELSE raised
    /\ UNCHANGED << caller, items, workers, interactive, worker_count,
                    pool_size, pc, items_with_deps, items_without_deps,
                    startCount, reaped, yieldCount, error, listed >>
    /\ UNCHANGED << aggVars, msVars, modeVars >>

\* what the reap step makes of the two lists (lines 117-123)
AfterReap(with_deps, without_deps, dep) ==
    split_items_without_deps(remove_dep_from_items(with_deps, dep))

\* if result is not None: yield result
Yields(result) == result # None

\* lines 109-125: one pass of the reap loop
Reap ==
    /\ pc = "reap"
    /\ IF reapable_count > 0
       THEN \E worker \in reapable :
              LET split == AfterReap(items_with_deps, items_without_deps,
                                     worker.id)
              IN  /\ reapable' = reapable \ { worker }
                  /\ reaped' = reaped \cup { worker.id }
                  /\ items_with_deps' = split[1]
                  /\ items_without_deps' = split[2]
                  /\ yieldCount' =
                       IF Yields(worker.result)
                       THEN [ yieldCount EXCEPT ![worker.id] = @ + 1 ]
                       ELSE yieldCount
                  /\ pc' = "reap"
       ELSE /\ pc' = "idle"
            /\ UNCHANGED << reapable, reaped, items_with_deps,
                            items_without_deps, yieldCount >>
    /\ UNCHANGED << caller, items, workers, interactive, worker_count,
                    pool_size, busy, startCount, raised, error, listed >>
    /\ UNCHANGED << aggVars, msVars, modeVars >>

IdleCheck_noBusyCheck ==
    /\ pc = "idle"
    /\ pc' = IF items_without_deps = <<>> /\ reapable_count = 0
             THEN "wait" ELSE "while"
    /\ UNCHANGED << caller, items, workers, interactive, worker_count,
                    pool_size, items_with_deps, items_without_deps, busy,
                    reapable, startCount, reaped, yieldCount, raised, error,
                    listed >>
    /\ UNCHANGED << aggVars, msVars, modeVars >>

\* lines 127-131: whether to wait
IdleCheck ==
    /\ pc = "idle"
    /\ pc' = IF busy_count > 0 /\ items_without_deps = <<>> /\ reapable_count = 0
             THEN "wait" ELSE "while"
    /\ UNCHANGED << caller, items, workers, interactive, worker_count,
                    pool_size, items_with_deps, items_without_deps, busy,
                    reapable, startCount, reaped, yieldCount, raised, error,
                    listed >>
    /\ UNCHANGED << aggVars, msVars, modeVars >>

\* line 133: workers.wait() returns once a worker is reapable
Wait ==
    /\ pc = "wait"
    /\ reapable_count > 0
    /\ pc' = "while"
    /\ UNCHANGED << caller, items, workers, interactive, worker_count,
                    pool_size, items_with_deps, items_without_deps, busy,
                    reapable, startCount, reaped, yieldCount, raised, error,
                    listed >>
    /\ UNCHANGED << aggVars, msVars, modeVars >>

\* an error that names the concrete items only
ListedItems_concrete(its) == { its[k].id : k \in { j \in DOMAIN its : ~its[j].dummy } }

\* the items the ItemDependencyError names: [repr(i) for i in items_with_deps]
ListedItems(its) == { its[k].id : k \in DOMAIN its }

\* lines 137-142: after the loop
Exit ==
    /\ pc = "exit"
    /\ IF items_with_deps # <<>>
       THEN /\ error' = "ItemDependencyError"
            /\ listed' = ListedItems(items_with_deps)
       ELSE UNCHANGED << error, listed >>
    /\ pc' = "done"
    /\ UNCHANGED << caller, items, workers, interactive, worker_count,
                    pool_size, items_with_deps, items_without_deps, busy,
                    reapable, startCount, reaped, yieldCount, raised >>
    /\ UNCHANGED << aggVars, msVars, modeVars >>

Next ==
    \/ Node_apply
    \/ Direct_call
    \/ Start
    \/ LoopTest
    \/ Dispatch
    \/ TaskDone
    \/ Reap
    \/ IdleCheck
    \/ Wait
    \/ Exit

Spec == Init /\ [][Next]_vars

\* ------------------------------------------------------- ApplyResult

Statuses == [correct : BOOLEAN, fixable : BOOLEAN, aborted : BOOLEAN]

\* before.aborted is never read
Pairs ==
    { [before |-> b, after |-> a] :
        b \in { st \in Statuses : ~st.aborted }, a \in Statuses }

\* a chain that tests after.aborted first
ApplyResult_clause_abortedFirst(before, after) ==
    IF after.aborted THEN "aborted"
    ELSE IF before.correct /\ after.correct THEN "correct"
    ELSE IF ~before.fixable \/ ~after.fixable THEN "unfixable"
    ELSE IF ~before.correct /\ after.correct THEN "fixed"
    ELSE IF ~before.correct /\ ~after.correct THEN "failed"
    ELSE "raise"

\* lines 21-36: the counter a pair goes to, or "raise"
ApplyResult_clause(before, after) ==
    IF before.correct /\ after.correct THEN "correct"
    ELSE IF after.aborted THEN "aborted"
    ELSE IF ~before.fixable \/ ~after.fixable THEN "unfixable"
    ELSE IF ~before.correct /\ after.correct THEN "fixed"
    ELSE IF ~before.correct /\ ~after.correct THEN "failed"
    ELSE "raise"

\* one pass of the loop of ApplyResult.__init__ (line 20)
ApplyResult_loop ==
    /\ item_results # <<>>
    /\ agg_error = "none"
    /\ LET pair == Head(item_results)
           clause == ApplyResult_clause(pair.before, pair.after)
       IN  /\ item_results' = Tail(item_results)
           /\ last' = pair
           /\ IF clause = "raise"
              THEN /\ agg_error' = "RuntimeError"
                   /\ counters' = counters
              ELSE /\ counters' = [ counters EXCEPT ![clause] = @ + 1 ]
                   /\ agg_error' = agg_error
    /\ UNCHANGED << schedVars, msVars, modeVars >>

\* ApplyResult(node, item_results) over any finite iterable of pairs
InitAgg ==
    /\ caller = "ApplyResult"
    /\ items = <<>>
    /\ workers = 1
    /\ interactive = FALSE
    /\ worker_count = 0
    /\ pool_size = 0
    /\ pc = "done"
    /\ items_with_deps = <<>>
    /\ items_without_deps = <<>>
    /\ busy = {}
    /\ reapable = {}
    /\ startCount = Zeros
    /\ reaped = {}
    /\ yieldCount = Zeros
    /\ raised = {}
    /\ error = "none"
    /\ listed = {}
    /\ item_results \in SeqsUpTo(Pairs, MaxResults)
    /\ counters = NoCounters
    /\ last = <<>>
    /\ agg_error = "none"
    /\ MetaIdle
    /\ ModeIdle

NextAgg == ApplyResult_loop

SpecAgg == InitAgg /\ [][NextAgg]_vars

\* ------------------------------------------------ the graph of a run

ConcreteIds == { items[k].id : k \in DOMAIN items }

ItemOf(id) == CHOOSE k \in DOMAIN items : items[k].id = id

DeclaredDeps(id) ==
    Range(items[ItemOf(id)].DEPENDS_STATIC) \cup Range(items[ItemOf(id)].depends)

GraphTypes ==
    { TypeOf(c) : c \in ConcreteIds }
    \cup UNION { { TypeOf(d) : d \in DeclaredDeps(c) } : c \in ConcreteIds }

GroupIds == { <<t, "">> : t \in GraphTypes }

GraphIds == ConcreteIds \cup GroupIds

\* the working deps the graph builder gives an item
DepsOf(id) ==
    IF id \in ConcreteIds THEN DeclaredDeps(id)
    ELSE { c \in ConcreteIds : TypeOf(c) = TypeOf(id) }

RECURSIVE ReachN(_, _)
ReachN(S, n) ==
    IF n = 0 THEN S
    ELSE ReachN(S \cup UNION { DepsOf(x) \cap GraphIds : x \in S }, n - 1)

\* the graph items id depends on, directly or not
ReachFrom(id) == ReachN(DepsOf(id) \cap GraphIds, Cardinality(GraphIds))

CycleMembers == { id \in GraphIds : id \in ReachFrom(id) }

Acyclic == CycleMembers = {}

Resolved == \A id \in GraphIds : DepsOf(id) \subseteq GraphIds

\* no item names a dependency twice
DuplicateFree ==
    \A k \in DOMAIN items :
        \A i, j \in DOMAIN (items[k].DEPENDS_STATIC \o items[k].depends) :
            i # j => (items[k].DEPENDS_STATIC \o items[k].depends)[i]
                       # (items[k].DEPENDS_STATIC \o items[k].depends)[j]

\* ------------------------------------------------------------ claims

Direct == caller = "apply_items"

Finished == Direct /\ pc = "done"

\* C1: an item's apply is started only after every graph item its working
\* deps name (a concrete item or a type group) has been reaped.
C1_StartAfterDepsReaped ==
    \A b \in GraphIds :
        startCount[b] > 0 => \A a \in DepsOf(b) \cap GraphIds : a \in reaped

\* a concrete item that waits for a type group with members has started
C1_Witness ==
    \E b \in ConcreteIds :
        /\ startCount[b] > 0
        /\ \E g \in DepsOf(b) \cap GroupIds : DepsOf(g) # {}
        /\ \E a \in DepsOf(b) \cap ConcreteIds : a # b

\* C2: for an acyclic, fully resolved item list the run yields exactly one
\* result per concrete item, none for a type group, and does not raise
\* (stated for the lists that name no dependency twice and the runs in
\* which no apply raises).
C2_OneResultEach ==
    (Finished /\ Acyclic /\ Resolved /\ DuplicateFree /\ raised = {}) =>
        /\ error = "none"
        /\ \A c \in ConcreteIds : yieldCount[c] = 1
        /\ \A g \in GroupIds : yieldCount[g] = 0

\* C3: no graph item has its apply started more than once.
C3_StartedAtMostOnce == \A id \in AllIds : startCount[id] <= 1

\* a finished run that started every item of a graph of at least four
C3_Witness ==
    /\ Finished
    /\ Cardinality(GraphIds) >= 4
    /\ \A id \in GraphIds : startCount[id] = 1

\* C4 as claimed: a cyclic item list ends in ItemDependencyError naming
\* exactly the members of the cycle.
C4_ExactlyTheCycle ==
    (Finished /\ ~Acyclic) =>
        /\ error = "ItemDependencyError"
        /\ listed = CycleMembers

\* C4 as amended: a cyclic item list ends in ItemDependencyError naming the
\* items still pending: every member of a cycle, the type group of every
\* concrete member, and no item that was started.
C4_ListsPendingResidue ==
    (Finished /\ ~Acyclic) =>
        /\ error = "ItemDependencyError"
        /\ CycleMembers \subseteq listed
        /\ \A c \in CycleMembers \cap ConcreteIds : <<TypeOf(c), "">> \in listed
        /\ \A l \in listed : l \in GraphIds /\ startCount[l] = 0

\* two concrete items that depend on each other, listed with their group
C4_Witness ==
    /\ Finished
    /\ error = "ItemDependencyError"
    /\ \E x, y \in ConcreteIds :
          /\ x # y
          /\ y \in DepsOf(x)
          /\ x \in DepsOf(y)
          /\ { x, y } \subseteq listed
          /\ listed \cap GroupIds # {}

\* C5: an unresolved id ends the run with UnknownDependency before any
\* apply is started.
C5_UnknownDependency ==
    (Finished /\ ~Resolved) =>
        /\ error = "UnknownDependency"
        /\ \A id \in AllIds : startCount[id] = 0

\* C6: an item whose apply raised counts as completed, its failure is
\* yielded, and every item that does not depend on it is still dispatched
\* and yields its result (stated for the acyclic, resolved lists that name
\* no dependency twice).
C6_FailureDoesNotBlockOthers ==
    (Finished /\ Acyclic /\ Resolved /\ DuplicateFree) =>
        \A f \in raised :
            /\ f \in reaped
            /\ yieldCount[f] = 1
            /\ \A k \in DOMAIN items_with_deps :
                   f \notin Range(items_with_deps[k].deps)
            /\ \A c \in ConcreteIds :
                   f \notin ReachFrom(c) =>
                       startCount[c] = 1 /\ yieldCount[c] = 1

\* the graph as inject_dummy_items returned it, before anything started
Fresh ==
    /\ Direct
    /\ pc = "while"
    /\ reaped = {}
    /\ busy = {}
    /\ reapable = {}
    /\ \A id \in AllIds : startCount[id] = 0

Graph == items_with_deps \o items_without_deps

NoRepeats(s) == \A i, j \in DOMAIN s : i # j => s[i] # s[j]

\* C7: the graph holds every input item and, for each type of an item or of
\* a dependency, exactly one type-group item whose working deps are the ids
\* of the concrete items of that type; no type group depends on a type group.
C7_InjectedGraph ==
    Fresh =>
        /\ Len(Graph) = Len(items) + Cardinality(GraphTypes)
        /\ \A t \in GraphTypes :
              \E k \in DOMAIN Graph :
                  /\ Graph[k].id = <<t, "">>
                  /\ Graph[k].dummy
                  /\ Range(Graph[k].deps)
                        = { c \in ConcreteIds : TypeOf(c) = t }
                  /\ NoRepeats(Graph[k].deps)
                  /\ \A j \in DOMAIN Graph : Graph[j].id = <<t, "">> => j = k
        /\ \A i \in DOMAIN items :
              \E k \in DOMAIN Graph :
                  /\ Graph[k].id = items[i].id
                  /\ ~Graph[k].dummy
                  /\ Graph[k].deps = items[i].DEPENDS_STATIC \o items[i].depends
        /\ \A k \in DOMAIN Graph :
              Graph[k].dummy => Range(Graph[k].deps) \cap GroupIds = {}

\* a graph with a type that only a dependency names and a type of two items
C7_Witness ==
    /\ Fresh
    /\ \E t \in GraphTypes : \A c \in ConcreteIds : TypeOf(c) # t
    /\ \E k \in DOMAIN Graph : Graph[k].dummy /\ Len(Graph[k].deps) = 2

Bump(cond) == IF cond THEN 1 ELSE 0

\* C9: each pair increments the counter of the first clause it matches, in
\* the order correct, aborted, unfixable, fixed, failed, and the error is
\* raised exactly when it matches none.
C9_FirstMatchingClause ==
    [][ item_results' # item_results =>
          LET b == Head(item_results).before
              a == Head(item_results).after
              isCorrect == b.correct /\ a.correct
              isAborted == ~isCorrect /\ a.aborted
              isUnfixable == ~isCorrect /\ ~a.aborted
                                /\ (~b.fixable \/ ~a.fixable)
              rest == ~isCorrect /\ ~a.aborted /\ b.fixable /\ a.fixable
              isFixed == rest /\ ~b.correct /\ a.correct
              isFailed == rest /\ ~b.correct /\ ~a.correct
          IN  /\ counters'.correct = counters.correct + Bump(isCorrect)
              /\ counters'.aborted = counters.aborted + Bump(isAborted)
              /\ counters'.unfixable = counters.unfixable + Bump(isUnfixable)
              /\ counters'.fixed = counters.fixed + Bump(isFixed)
              /\ counters'.failed = counters.failed + Bump(isFailed)
              /\ (agg_error' = "RuntimeError")
                    <=> (rest /\ b.correct /\ ~a.correct)
      ]_vars

\* an aborted, unfixable pair counted as aborted, then a pair no clause takes
C9_Witness ==
    /\ agg_error = "RuntimeError"
    /\ counters.aborted = 1
    /\ counters.unfixable = 0

\* ------------------------------------------------- facts behind C10

\* a node apply always ends in the TypeError of line 80
NodeApplyAlwaysRaises ==
    (caller = "Node.apply" /\ pc = "done") => error = "TypeError"

\* a run of apply_items over a list that ends without error has yielded one
\* result for each concrete item and none for a type group
CleanFinishYieldsEachOnce ==
    (Finished /\ error = "none") =>
        /\ \A c \in ConcreteIds : yieldCount[c] = 1
        /\ \A g \in AllIds \ ConcreteIds : yieldCount[g] = 0

\* ------------------------------------------------- Metastack (metastack.py)

MaxLayers == 2      \* identifiers one Metastack is given

\* the apply machinery at rest, for the specifications that do not run it
SchedIdle ==
    /\ items = <<>>
    /\ workers = 1
    /\ interactive = FALSE
    /\ worker_count = 0
    /\ pool_size = 0
    /\ pc = "done"
    /\ items_with_deps = <<>>
    /\ items_without_deps = <<>>
    /\ busy = {}
    /\ reapable = {}
    /\ startCount = Zeros
    /\ reaped = {}
    /\ yieldCount = Zeros
    /\ raised = {}
    /\ error = "none"
    /\ listed = {}

AggIdle ==
    /\ item_results = <<>>
    /\ counters = NoCounters
    /\ last = <<>>
    /\ agg_error = "none"

\* metadata values: a scalar, a list of values, a mapping from string keys
\* to values; Other stands for an object that is no metadata value
Scalar(s) == [t |-> "scalar", s |-> s]

List(l) == [t |-> "list", l |-> l]

Mapping(m) == [t |-> "map", m |-> m]

Other == [t |-> "other"]

NoKeys == [k \in {} |-> Other]

EmptyMapping == Mapping(NoKeys)

IsMapping(v) == v.t = "map"

\* what a call hands back
Returns(v) == [returns |-> v]

Raises(e) == [raises |-> e]

KeyError == [t |-> "KeyError"]

\* merge_dict: keys of both; a key in both is merged recursively when both
\* values are mappings, otherwise the overlay's value is taken
RECURSIVE merge_dict(_, _)
merge_dict(base, overlay) ==
    IF IsMapping(base) /\ IsMapping(overlay)
    THEN Mapping([k \in (DOMAIN base.m) \cup (DOMAIN overlay.m) |->
            IF k \in DOMAIN base.m /\ k \in DOMAIN overlay.m
            THEN merge_dict(base.m[k], overlay.m[k])
            ELSE IF k \in DOMAIN overlay.m THEN overlay.m[k] ELSE base.m[k]])
    ELSE overlay

\* value_at_key_path: descend mapping by mapping; KeyError when a segment
\* is missing or the descent meets a value that is no mapping
RECURSIVE value_at_key_path(_, _)
value_at_key_path(value, path) ==
    IF path = <<>> THEN value
    ELSE IF IsMapping(value) /\ Head(path) \in DOMAIN value.m
         THEN value_at_key_path(value.m[Head(path)], Tail(path))
         ELSE KeyError

\* freeze_object: mappings become read-only mappings, lists read-only
\* sequences, all the way down
RECURSIVE freeze_object(_)
freeze_object(v) ==
    IF v.t = "map"
    THEN [t |-> "frozen_map", fm |-> [k \in DOMAIN v.m |-> freeze_object(v.m[k])]]
    ELSE IF v.t = "list"
         THEN [t |-> "frozen_list", fl |-> [i \in 1..Len(v.l) |-> freeze_object(v.l[i])]]
         ELSE v

RECURSIVE WellFormed(_)
WellFormed(v) ==
    \/ v.t = "scalar"
    \/ v.t = "list" /\ \A i \in 1..Len(v.l) : WellFormed(v.l[i])
    \/ v.t = "map" /\ \A k \in DOMAIN v.m : WellFormed(v.m[k])

\* validate_metadata: a well-formed metadata value whose root is a mapping
validate_metadata(layer) ==
    IF IsMapping(layer) /\ WellFormed(layer) THEN "ok" ELSE "InvalidMetadata"

\* str.split(sep) on a string given as its sequence of characters
RECURSIVE split(_, _)
split(chars, sep) ==
    IF chars = <<>> THEN << "" >>
    ELSE LET rest == split(Tail(chars), sep) IN
         IF Head(chars) = sep
         THEN << "" >> \o rest
         ELSE << Head(chars) \o Head(rest) >> \o Tail(rest)

\* a path is a list of keys or a string
ListPath(keys) == [list |-> keys]

StrPath(chars) == [str |-> chars]

PathKeys(path) ==
    IF "list" \in DOMAIN path THEN path.list ELSE split(path.str, "/")

\* result wrapped as {'data': value}
Data(value) == Mapping([data |-> value])

get_found_baseWins(result, undef, value) ==
    IF undef
    THEN [result |-> Data(value), undef |-> FALSE]
    ELSE [result |-> merge_dict(Data(value), result), undef |-> FALSE]

\* a layer that has the path: the first value starts the result, a later
\* one is merged over it
get_found(result, undef, value) ==
    IF undef
    THEN [result |-> Data(value), undef |-> FALSE]
    ELSE [result |-> merge_dict(result, Data(value)), undef |-> FALSE]

\* the loop over self._layers.values(), in order
RECURSIVE get_loop(_, _, _, _)
get_loop(ls, path, result, undef) ==
    IF ls = <<>> THEN [result |-> result, undef |-> undef]
    ELSE LET value == value_at_key_path(Head(ls).layer, path) IN
         IF value = KeyError
         THEN get_loop(Tail(ls), path, result, undef)
         ELSE LET r == get_found(result, undef, value) IN
              get_loop(Tail(ls), path, r.result, r.undef)

get_return_defaultFirst(r, default, use_default) ==
    IF use_default
    THEN Returns(default)
    ELSE IF r.undef THEN Raises("MetastackKeyError")
         ELSE Returns(freeze_object(r.result.m["data"]))

get_return(r, default, use_default) ==
    IF r.undef
    THEN IF use_default THEN Returns(default) ELSE Raises("MetastackKeyError")
    ELSE Returns(freeze_object(r.result.m["data"]))

get(ls, path, default, use_default) ==
    get_return(get_loop(ls, PathKeys(path), None, TRUE), default, use_default)

has(ls, path) ==
    IF get(ls, path, "<unused>", FALSE) = Raises("MetastackKeyError")
    THEN Returns(FALSE)
    ELSE Returns(TRUE)

LayerIds(ls) == [i \in 1..Len(ls) |-> ls[i].identifier]

\* self._layers.get(identifier, default)
layers_get(ls, identifier, default) ==
    IF \E i \in 1..Len(ls) : ls[i].identifier = identifier
    THEN ls[CHOOSE i \in 1..Len(ls) : ls[i].identifier = identifier].layer
    ELSE default

changed_whenFresh(ls, identifier, new_layer) ==
    \/ identifier \notin Range(LayerIds(ls))
    \/ layers_get(ls, identifier, EmptyMapping) # new_layer

changed(ls, identifier, new_layer) ==
    layers_get(ls, identifier, EmptyMapping) # new_layer

layers_set_moved(ls, identifier, new_layer) ==
    Append(SelectSeq(ls, LAMBDA e : e.identifier # identifier),
           [identifier |-> identifier, layer |-> new_layer])

\* self._layers[identifier] = new_layer on an insertion-ordered dict
layers_set(ls, identifier, new_layer) ==
    IF \E i \in 1..Len(ls) : ls[i].identifier = identifier
    THEN [i \in 1..Len(ls) |->
            IF ls[i].identifier = identifier
            THEN [identifier |-> identifier, layer |-> new_layer]
            ELSE ls[i]]
    ELSE Append(ls, [identifier |-> identifier, layer |-> new_layer])

SetLayerCall(identifier, new_layer, outcome) ==
    [op |-> "set_layer", identifier |-> identifier, new_layer |-> new_layer,
     outcome |-> outcome]

set_layer_storeFirst(identifier, new_layer) ==
    /\ layers' = layers_set(layers, identifier, new_layer)
    /\ ms_op' = SetLayerCall(identifier, new_layer,
                    IF validate_metadata(new_layer) = "InvalidMetadata"
                    THEN Raises("InvalidMetadata")
                    ELSE Returns(changed(layers, identifier, new_layer)))
    /\ UNCHANGED << schedVars, aggVars, modeVars >>

set_layer(identifier, new_layer) ==
    /\ IF validate_metadata(new_layer) = "InvalidMetadata"
       THEN /\ ms_op' = SetLayerCall(identifier, new_layer, Raises("InvalidMetadata"))
            /\ layers' = layers
       ELSE /\ ms_op' = SetLayerCall(identifier, new_layer,
                            Returns(changed(layers, identifier, new_layer)))
            /\ layers' = layers_set(layers, identifier, new_layer)
    /\ UNCHANGED << schedVars, aggVars, modeVars >>

Metastack_get(path, default, use_default) ==
    /\ ms_op' = [op |-> "get", path |-> path, default |-> default,
                 use_default |-> use_default,
                 outcome |-> get(layers, path, default, use_default)]
    /\ UNCHANGED << layers, schedVars, aggVars, modeVars >>

Metastack_has(path) ==
    /\ ms_op' = [op |-> "has", path |-> path, outcome |-> has(layers, path)]
    /\ UNCHANGED << layers, schedVars, aggVars, modeVars >>

\* the inputs: identifiers, layers (valid and not), paths, defaults
IdentifierNames == << "base", "over", "late" >>

Identifiers ==
    { IdentifierNames[i] : i \in 1..Min(MaxLayers, Len(IdentifierNames)) }

ValuesAtA ==
    { Scalar(1), Scalar(2),
      List(<< Scalar(1) >>), List(<< Scalar(2), Scalar(1) >>),
      EmptyMapping,
      Mapping([x |-> Scalar(1), y |-> Scalar(2)]),
      Mapping([y |-> Scalar(9)]),
      Mapping([x |-> List(<< Scalar(2) >>)]) }

ValidLayers ==
    { EmptyMapping, Mapping([b |-> Scalar(2)]) }
        \cup { Mapping([a |-> v]) : v \in ValuesAtA }
        \cup { Mapping([a |-> Mapping([x |-> Scalar(1), y |-> Scalar(2)]),
                         b |-> Scalar(1)]) }

InvalidLayers ==
    { Scalar(1), List(<< Scalar(1) >>), Mapping([a |-> Other]),
      Mapping([a |-> Mapping([x |-> Other])]) }

Paths ==
    { ListPath(p) : p \in { <<>>, << "a" >>, << "b" >>, << "c" >>,
                            << "a", "x" >>, << "a", "y" >>, << "a", "z" >>,
                            << "a", "x", "y" >> } }
        \cup { StrPath(s) : s \in { <<>>, << "a" >>, << "a", "/", "y" >>,
                                    << "a", "/", "z" >>, << "a", "/" >> } }

Defaults == { Scalar(42) }

InitMeta ==
    /\ caller = "Metastack"
    /\ SchedIdle
    /\ AggIdle
    /\ MetaIdle
    /\ ModeIdle

NextMeta ==
    \/ \E identifier \in Identifiers, new_layer \in ValidLayers \cup InvalidLayers :
        set_layer(identifier, new_layer)
    \/ \E path \in Paths, default \in Defaults, use_default \in BOOLEAN :
        Metastack_get(path, default, use_default)
    \/ \E path \in Paths : Metastack_has(path)

SpecMeta == InitMeta /\ [][NextMeta]_vars

\* ------------------------------------------------- claims on the Metastack

Contains(layer, keys) == value_at_key_path(layer, keys) # KeyError

\* the values at the path, of the layers that have it, in layer order
Contributions(ls, keys) ==
    LET having == SelectSeq(ls, LAMBDA e : Contains(e.layer, keys))
    IN  [i \in 1..Len(having) |-> value_at_key_path(having[i].layer, keys)]

\* left fold of merge_dict over a non-empty sequence of values
RECURSIVE Fold(_)
Fold(values) ==
    IF Len(values) = 1 THEN values[1]
    ELSE merge_dict(Fold(SubSeq(values, 1, Len(values) - 1)), values[Len(values)])

GetDone == ms_op.op = "get"

HasDone == ms_op.op = "has"

SomeLayerContains(keys) == \E i \in 1..Len(layers) : Contains(layers[i].layer, keys)

\* C11: for a path that at least one layer contains, get returns the frozen
\* left fold of the merge over the values at the path of exactly the layers
\* that contain it, in layer order; the layers lacking the path play no part
C11_GetIsFrozenFold ==
    (GetDone /\ SomeLayerContains(PathKeys(ms_op.path))) =>
        ms_op.outcome =
            Returns(freeze_object(Fold(Contributions(layers, PathKeys(ms_op.path)))))

\* the example of the specification: base {a: {x: 1, y: 2}}, over {a: {y: 9}},
\* and get("a") gives the frozen {x: 1, y: 9}
C11_Witness ==
    /\ GetDone
    /\ ms_op.path = ListPath(<< "a" >>)
    /\ Len(layers) = 2
    /\ layers[1].layer = Mapping([a |-> Mapping([x |-> Scalar(1), y |-> Scalar(2)])])
    /\ layers[2].layer = Mapping([a |-> Mapping([y |-> Scalar(9)])])
    /\ ms_op.outcome =
        Returns(freeze_object(Mapping([x |-> Scalar(1), y |-> Scalar(9)])))

SetLayerStored ==
    /\ ms_op'.op = "set_layer"
    /\ ms_op'.outcome # Raises("InvalidMetadata")

SetLayerRefused ==
    /\ ms_op'.op = "set_layer"
    /\ validate_metadata(ms_op'.new_layer) = "InvalidMetadata"

Stored(identifier) == identifier \in Range(LayerIds(layers))

\* C12 as stated: changed is true exactly when no layer was stored under the
\* identifier before the call or the stored layer differs from the new one
C12_ChangedIffFreshOrDiffers ==
    [][SetLayerStored =>
        (ms_op'.outcome = Returns(TRUE)) <=>
            (\/ ~Stored(ms_op'.identifier)
             \/ layers_get(layers, ms_op'.identifier, EmptyMapping) # ms_op'.new_layer)]_vars

\* C12 as the code has it: changed is true exactly when the new layer differs
\* from the stored one, an identifier with no stored layer counting as one
\* that stores the empty mapping; so the first call for a fresh identifier
\* returns changed=false for the empty mapping and true for any other layer,
\* and a call repeating the stored layer returns false
C12_ChangedIffDiffersFromStoredOrEmpty ==
    [][SetLayerStored =>
        /\ (Stored(ms_op'.identifier) =>
                ((ms_op'.outcome = Returns(TRUE)) <=>
                    (\E i \in 1..Len(layers) :
                        /\ layers[i].identifier = ms_op'.identifier
                        /\ layers[i].layer # ms_op'.new_layer)))
        /\ (~Stored(ms_op'.identifier) =>
                ((ms_op'.outcome = Returns(TRUE)) <=>
                    (ms_op'.new_layer # EmptyMapping)))]_vars

\* a fresh identifier was given the empty mapping and changed came back false
C12_Witness ==
    /\ ms_op.op = "set_layer"
    /\ ms_op.new_layer = EmptyMapping
    /\ ms_op.outcome = Returns(FALSE)
    /\ Len(layers) = 1

\* C13: a set_layer that stores appends a fresh identifier at the end and
\* replaces the layer of an existing identifier where it stands; the other
\* layers and the order of the identifiers get iterates stay as they were
C13_OrderIsFirstInsertion ==
    [][SetLayerStored =>
        LET id == ms_op'.identifier IN
        /\ LayerIds(layers') =
            IF Stored(id) THEN LayerIds(layers) ELSE Append(LayerIds(layers), id)
        /\ \A i \in 1..Len(layers') :
            layers'[i].layer =
                IF layers'[i].identifier = id THEN ms_op'.new_layer ELSE layers[i].layer
        /\ \A i, j \in 1..Len(layers') :
            layers'[i].identifier = layers'[j].identifier => i = j]_vars

\* the first identifier was set again after the second one and still comes first
C13_Witness ==
    /\ ms_op.op = "set_layer"
    /\ ms_op.outcome = Returns(TRUE)
    /\ Len(layers) = 2
    /\ ms_op.identifier = layers[1].identifier
    /\ layers[1].layer = Mapping([a |-> Scalar(2)])
    /\ layers[2].layer = Mapping([a |-> Scalar(1)])

\* C14: a set_layer whose layer fails validation raises InvalidMetadata and
\* leaves the Metastack as it was: the same layers in the same order, and the
\* same answer from every get and has
C14_InvalidLayerNotStored ==
    [][SetLayerRefused =>
        /\ ms_op'.outcome = Raises("InvalidMetadata")
        /\ layers' = layers
        /\ \A path \in Paths :
            /\ has(layers', path) = has(layers, path)
            /\ \A default \in Defaults, use_default \in BOOLEAN :
                get(layers', path, default, use_default)
                    = get(layers, path, default, use_default)]_vars

\* an invalid layer was offered for an identifier that holds a layer
C14_Witness ==
    /\ ms_op.op = "set_layer"
    /\ ms_op.outcome = Raises("InvalidMetadata")
    /\ ms_op.new_layer = Mapping([a |-> Other])
    /\ Len(layers) = 2
    /\ ms_op.identifier = layers[1].identifier

\* C15: has is true exactly when some layer contains the path; when none
\* does, get returns the default with use_default and raises
\* MetastackKeyError without; when one does, get returns the merged value
\* and not the default
C15_HasAndDefault ==
    /\ HasDone =>
        ms_op.outcome = Returns(SomeLayerContains(PathKeys(ms_op.path)))
    /\ (GetDone /\ ~SomeLayerContains(PathKeys(ms_op.path))) =>
        ms_op.outcome = IF ms_op.use_default
                        THEN Returns(ms_op.default)
                        ELSE Raises("MetastackKeyError")
    /\ (GetDone /\ SomeLayerContains(PathKeys(ms_op.path))) =>
        /\ ms_op.outcome # Returns(ms_op.default)
        /\ ms_op.outcome # Raises("MetastackKeyError")
        /\ "returns" \in DOMAIN ms_op.outcome

\* get("a/z", 42) on a Metastack whose layers have a but not a/z gives 42
C15_Witness ==
    /\ GetDone
    /\ ms_op.path = StrPath(<< "a", "/", "z" >>)
    /\ ms_op.use_default
    /\ ms_op.outcome = Returns(Scalar(42))
    /\ Len(layers) = 2
    /\ \A i \in 1..2 : Contains(layers[i].layer, << "a" >>)

\* ------------------------------------------------- validator_mode (files.py)

MaxModeLen == 5     \* longest enumerated mode string

\* characters are one-character strings; two stand for characters outside
\* ASCII: ArabicSix is U+0666, a decimal digit int() reads as 6, and
\* SuperTwo is U+00B2, for which isdigit() is true and int() raises ValueError
ArabicSix == "U+0666"

SuperTwo == "U+00B2"

\* int(c) for the characters int() converts
IntOf ==
    [c \in { "0", "1", "2", "3", "4", "5", "6", "7", "8", "9", ArabicSix } |->
        CASE c = "0" -> 0 [] c = "1" -> 1 [] c = "2" -> 2 [] c = "3" -> 3
          [] c = "4" -> 4 [] c = "5" -> 5 [] c = "6" -> 6 [] c = "7" -> 7
          [] c = "8" -> 8 [] c = "9" -> 9 [] c = ArabicSix -> 6]

\* str.isdigit(): not empty and every character a digit character
isdigit(value) ==
    /\ Len(value) > 0
    /\ \A i \in 1..Len(value) : value[i] \in (DOMAIN IntOf) \cup { SuperTwo }

\* the loop over the characters: int(digit) raises ValueError for a character
\* it cannot convert, otherwise a digit above 7 raises BundleError; the first
\* character to raise ends the call
RECURSIVE mode_digits(_)
mode_digits(value) ==
    IF value = <<>> THEN "ok"
    ELSE IF Head(value) \notin DOMAIN IntOf THEN "ValueError"
    ELSE IF IntOf[Head(value)] > 7 \/ IntOf[Head(value)] < 0 THEN "BundleError"
    ELSE mode_digits(Tail(value))

validator_mode(value) ==
    IF ~isdigit(value) THEN "BundleError"
    ELSE IF mode_digits(value) # "ok" THEN mode_digits(value)
    ELSE IF ~(Len(value) = 3) /\ ~(Len(value) = 4) THEN "BundleError"
    ELSE "accepted"

validator_mode_call ==
    /\ mode_result = "none"
    /\ mode_result' = validator_mode(mode_value)
    /\ UNCHANGED << mode_value, schedVars, aggVars, msVars >>

ModeChars == { "0", "6", "7", "8", "-", SuperTwo }

ModeExamples ==
    { << "6", "4", "4" >>, << "0", "6", "4", "4" >>, <<>>, << "6", "4" >>,
      << "1", "2", "3", "4", "5" >>, << "6", "4", "8" >>, << "-", "6", "4" >>,
      << ArabicSix, "4", "4" >>, << "6", "4", "a" >>, << "9", "9", "9" >> }

InitMode ==
    /\ caller = "validator_mode"
    /\ SchedIdle
    /\ AggIdle
    /\ MetaIdle
    /\ mode_value \in SeqsUpTo(ModeChars, MaxModeLen) \cup ModeExamples
    /\ mode_result = "none"

NextMode == validator_mode_call

SpecMode == InitMode /\ [][NextMode]_vars

\* ------------------------------------------------- claims on validator_mode

Validated == mode_result # "none"

\* a digit in 0..7, whatever its script
OctalDigit(c) == c \in DOMAIN IntOf /\ IntOf[c] \in 0..7

WellFormedMode(value) ==
    /\ Len(value) \in { 3, 4 }
    /\ \A i \in 1..Len(value) : OctalDigit(value[i])

\* C16: a mode string is accepted exactly when it has three or four
\* characters, each a digit in 0..7, and every other string is rejected with
\* the invalid-attribute error (BundleError); "644" and "0644" are accepted,
\* "", "64", "12345", "648" and "-64" are rejected
C16_AcceptsExactlyOctalModes ==
    Validated =>
        /\ (mode_result = "accepted") <=> WellFormedMode(mode_value)
        /\ (mode_result # "accepted") => mode_result = "BundleError"
        /\ mode_value \in { << "6", "4", "4" >>, << "0", "6", "4", "4" >> }
                => mode_result = "accepted"
        /\ mode_value \in { <<>>, << "6", "4" >>, << "1", "2", "3", "4", "5" >>,
                            << "6", "4", "8" >>, << "-", "6", "4" >> }
                => mode_result = "BundleError"

\* the same for the strings made of ASCII characters only, where it holds
AsciiMode == \A i \in 1..Len(mode_value) : mode_value[i] \notin { ArabicSix, SuperTwo }

ModeOfAsciiString ==
    (Validated /\ AsciiMode) =>
        /\ (mode_result = "accepted") <=> WellFormedMode(mode_value)
        /\ (mode_result # "accepted") => mode_result = "BundleError"

\* ------------------------------------------------- claims on the loop's end

Pending == { items_with_deps[k].id : k \in DOMAIN items_with_deps }

\* C17: when the loop has ended with items still pending, each of them has a
\* remaining working dep whose item is pending too, and an acyclic, resolved
\* item list never ends in the cyclic-dependency error (stated for the lists
\* that name no dependency twice)
C17_ResidueIsACycle ==
    (Finished /\ Resolved /\ DuplicateFree) =>
        /\ \A k \in DOMAIN items_with_deps :
               Range(items_with_deps[k].deps) \cap Pending # {}
        /\ Acyclic => error # "ItemDependencyError"

\* C18: working deps are a set: an item is pending only while some id among
\* its deps has not been reaped, however often the item names that id
C18_DepsAreASet ==
    Direct =>
        \A k \in DOMAIN items_with_deps :
            ~(DepsOf(items_with_deps[k].id) \subseteq reaped)

Running == pc \in { "while", "dispatch", "reap", "idle", "wait", "exit" }

Occurrences(id) ==
    Cardinality({ k \in DOMAIN items_with_deps : items_with_deps[k].id = id })
    + Cardinality({ k \in DOMAIN items_without_deps : items_without_deps[k].id = id })
    + Cardinality({ w \in busy \cup reapable : w.id = id })
    + (IF id \in reaped THEN 1 ELSE 0)

\* C20: while the loop runs every graph item is in exactly one place:
\* pending, ready, on a worker (running or reapable), or reaped (stated for
\* the resolved item lists that name no dependency twice)
C20_NoItemDropped ==
    (Direct /\ Running /\ Resolved /\ DuplicateFree) =>
        \A id \in GraphIds : Occurrences(id) = 1

\* ------------------------------------------------- termination of the loop

\* the steps of the thread that runs apply_items
Scheduler ==
    \/ Node_apply
    \/ Direct_call
    \/ Start
    \/ LoopTest
    \/ Dispatch
    \/ Reap
    \/ IdleCheck
    \/ Wait
    \/ Exit

MaxFairDeps == 1    \* user dependencies of an item list, for the fair runs

\* the runs checked for termination: a direct call ignores interactive, and
\* a node apply ends in Start whatever its items are
InitFair ==
    /\ caller \in { "apply_items", "Node.apply" }
    /\ items \in ListsFrom(1, MaxFairDeps)
    /\ workers \in 1..MaxWorkers
    /\ interactive \in BOOLEAN
    /\ caller = "apply_items" => ~interactive
    /\ caller = "Node.apply" => Len(items) <= 1
    /\ worker_count = 0
    /\ pool_size = 0
    /\ pc = "call"
    /\ items_with_deps = <<>>
    /\ items_without_deps = <<>>
    /\ busy = {}
    /\ reapable = {}
    /\ startCount = Zeros
    /\ reaped = {}
    /\ yieldCount = Zeros
    /\ raised = {}
    /\ error = "none"
    /\ listed = {}
    /\ AggIdle
    /\ MetaIdle
    /\ ModeIdle

\* the scheduler's thread runs whenever it is not blocked in wait(), and
\* every task started on a worker completes
FairSpec ==
    InitFair /\ [][Next]_vars /\ WF_vars(Scheduler) /\ WF_vars(TaskDone)

EntersWait == pc # "wait" /\ pc' = "wait"

====
